---- MODULE Spec2Model ----
(***************************************************************************)
(* Model of scripts/evaluate.py: the end-to-end OCR evaluation script.     *)
(* main(args) is followed statement by statement; pc is the position in    *)
(* main.  The collaborators of doctr (predictor, datasets, metrics) are    *)
(* not part of scripts/evaluate.py; they are modelled from their described *)
(* contract and their results are inputs chosen from small sets.           *)
(* Relative coordinates are rationals <<num, den>>, the IoU threshold is   *)
(* held in percent (0.5 is 50).                                            *)
(***************************************************************************)
EXTENDS Integers, Sequences, FiniteSets, TLC

\* ---------------------------------------------------------------- bounds
\* samples held by one dataset (0..MaxSamples)
MaxSamples == 1

\* ------------------------------------------------------- program constants
\* argparse defaults (parse_args)
IouDefault == 50
DatasetDefault == "FUNSD"
BatchSizeDefault == 32

None == "None"
\* a flag that is not on the command line (a given flag v is <<v>>)
Absent == << >>

\* ------------------------------------------------------------------ inputs
IouChoices == {Absent, <<30>>}
DatasetChoices == {Absent, <<"CORD">>}
ImgFolderChoices == {Absent, <<"imgs">>}
LabelFileChoices == {Absent, <<"labels.json">>}

CommandLines ==
    [detection : {<<"db_resnet50">>}, recognition : {<<"crnn_vgg16_bn">>},
     iou : IouChoices, dataset : DatasetChoices,
     img_folder : ImgFolderChoices, label_file : LabelFileChoices,
     batch_size : {Absent}]

\* numpy dtypes of target['boxes']: "int64", "int32", "float32"
IsIntegerDtype(d) == d \in {"int64", "int32"}
\* the dtype the builtin int stands for in a dtype comparison: the platform's
\* C long, 64 bits on Linux and macOS (where it is 32 bits the two integer
\* dtypes below change places)
NpInt == "int64"

\* page.dimensions = (h, w)
PageDims == {<<2, 3>>}

\* number of ground-truth boxes of a sample
GtSizes == {0, 1, 2}

\* the pages of the datasets: the layout (blocks -> lines -> number of words)
\* and the text the models find in the page, and the dtype its ground-truth
\* boxes are stored with
PageKinds ==
    { [dtype |-> "int64",   shape |-> << <<2>>, << >>, <<0, 1>> >>, text |-> "a"],
      [dtype |-> "int64",   shape |-> << >>,                        text |-> "A"],
      [dtype |-> "int32",   shape |-> << <<2>>, << >>, <<0, 1>> >>, text |-> "b"],
      [dtype |-> "float32", shape |-> << <<1>> >>,                  text |-> "A"],
      [dtype |-> "float32", shape |-> << <<2>>, << >>, <<0, 1>> >>, text |-> "a"] }
\* the ground-truth label of box i
GtLabelOf(i) == "a"

\* word.geometry = ((a, b), (c, d)), relative coordinates as <<num, den>>
Geometries ==
    << << << <<1, 2>>, <<0, 1>> >>, << <<1, 1>>, <<1, 2>> >> >>,
       << << <<0, 1>>, <<1, 2>> >>, << <<1, 3>>, <<1, 1>> >> >>,
       << << <<1, 3>>, <<1, 3>> >>, << <<2, 3>>, <<1, 1>> >> >> >>

\* the word of line l of block b at position w: its value is the text read,
\* tagged with the word's place
WordAt(b, l, w, text) ==
    [geometry |-> Geometries[((b + l + w) % 3) + 1],
     value |-> [text |-> text, at |-> <<b, l, w>>]]

\* a Document of one page
DocOf(shape, dims, text) ==
    [pages |->
        << [dimensions |-> dims,
            blocks |-> [b \in 1..Len(shape) |->
                [lines |-> [l \in 1..Len(shape[b]) |->
                    [words |-> [w \in 1..shape[b][l] |-> WordAt(b, l, w, text)]]]]]] >>]

\* ------------------------------------------------------------------- state
VARIABLES
    pc,          \* position in __main__ / main
    cli,         \* the command line
    args,        \* parse_args() result
    predictor,
    sets, di, si,            \* sets, and the two for loops over it
    page, gt_boxes, gt_labels,
    out, reco_words,
    pred_boxes, pred_labels,
    pi, bi, li, wi, hw,      \* the four unpacking loops and (h, w)
    det_metric, reco_metric, e2e_metric,
    split_counts,            \* what each dataset of sets contributed (history)
    call,                    \* arguments of the latest update call (history)
    log,                     \* update and summary calls in order (history)
    printed,                 \* lines written to stdout
    errAt, exit_code         \* where an exception was raised; process exit code

vars == <<pc, cli, args, predictor, sets, di, si, page, gt_boxes,
          gt_labels, out, reco_words, pred_boxes, pred_labels, pi, bi, li, wi,
          hw, det_metric, reco_metric, e2e_metric, split_counts, call, log,
          printed, errAt, exit_code>>

\* ----------------------------------------------------------------- helpers
Min(a, b) == IF a < b THEN a ELSE b

\* argparse: the flag's value, or its default
ArgOrDefault(opt, default) == IF opt = Absent THEN default ELSE opt[1]

\* Python truth value of an optional string argument
Truthy(x) == x # None /\ x # ""

\* numpy: gt_boxes.dtype == int
DtypeEqInt(dtype) == dtype = NpInt

\* Python int(x * s) for a relative coordinate x = <<num, den>> >= 0
IntScale(x, s) == (x[1] * s) \div x[2]

\* zip(*seq) of a sequence of pairs
ZipStar(seq) ==
    IF seq = << >> THEN << >>
    ELSE [k \in 1..2 |-> [i \in 1..Len(seq) |-> seq[i][k]]]

\* predictor(page[None, ...]): the Document of the one page given
Predict(pg) == DocOf(pg.shape, pg.dims, pg.text)

\* extract_crops(page, gt_boxes): one crop per ground-truth box, in order
ExtractCrops(pg, boxes) ==
    [i \in 1..Len(boxes.boxes) |-> [of_box |-> boxes.boxes[i], text |-> pg.text]]

\* predictor.reco_predictor(crops): one (word, confidence) per crop, in order
RecoPredict(crops) ==
    [i \in 1..Len(crops) |->
        << [text |-> crops[i].text, crop |-> crops[i].of_box], 1 >>]

Lower(t) == IF t = "A" THEN "a" ELSE t

\* ------------------------------------------------------------ accumulators
NoDet == [iou_thresh |-> 0, num_gts |-> 0, num_preds |-> 0, matches |-> 0, tot_iou |-> 0]
NoReco == [total |-> 0, raw |-> 0, unicase |-> 0]
NoE2E == [iou_thresh |-> 0, num_gts |-> 0, num_preds |-> 0, raw |-> 0, unicase |-> 0, tot_iou |-> 0]

\* LocalizationConfusion(iou_thresh), TextMatch(), OCRMetric(iou_thresh)
LocalizationConfusion(iou) == [NoDet EXCEPT !.iou_thresh = iou]
TextMatch == NoReco
OCRMetric(iou) == [NoE2E EXCEPT !.iou_thresh = iou]

\* the boxes of gts and preds that overlap: the detector is exact, its k-th
\* word lies on the k-th ground-truth box, so that a pair overlaps (fully)
\* when both boxes are given in the same convention
Overlapping(gts, preds) ==
    {k \in 1..Min(Len(gts.boxes), Len(preds)) :
        (preds[k].kind = "pixel") <=> IsIntegerDtype(gts.dtype)}

\* LocalizationConfusion.update(gts, preds)
DetAdd(acc, gts, preds) ==
    LET m == Cardinality(Overlapping(gts, preds))
    IN  [acc EXCEPT !.num_gts = @ + Len(gts.boxes), !.num_preds = @ + Len(preds),
                    !.matches = @ + m, !.tot_iou = @ + 100 * m]

\* TextMatch.update(gt, pred): exact and case-insensitive string matches
RecoAdd(acc, gt, pred) ==
    [acc EXCEPT !.total = @ + Len(gt),
                !.raw = @ + Cardinality({i \in 1..Len(gt) : gt[i] = pred[i].text}),
                !.unicase = @ + Cardinality({i \in 1..Len(gt) :
                                    Lower(gt[i]) = Lower(pred[i].text)})]

\* OCRMetric.update(gt_boxes, pred_boxes, gt_labels, pred_labels): the
\* overlapping pairs whose strings match, exactly and up to case
E2EAdd(acc, gts, preds, gt, pred) ==
    LET ms == Overlapping(gts, preds)
    IN  [acc EXCEPT !.num_gts = @ + Len(gts.boxes), !.num_preds = @ + Len(preds),
                    !.raw = @ + Cardinality({k \in ms : gt[k] = pred[k].text}),
                    !.unicase = @ + Cardinality({k \in ms :
                                        Lower(gt[k]) = Lower(pred[k].text)}),
                    !.tot_iou = @ + 100 * Cardinality(ms)]

NoCounts == [det |-> NoDet, reco |-> NoReco, e2e |-> NoE2E]

\* ------------------------------------------------------------------- Init
NoCall == [metric |-> "none", boxes |-> << >>, labels |-> << >>, dtype |-> "none",
           gt |-> << >>]

Init ==
    /\ pc = "parse"
    /\ cli \in CommandLines
    /\ args = [detection |-> None, recognition |-> None, iou |-> 0, dataset |-> None,
               img_folder |-> None, label_file |-> None, batch_size |-> 0]
    /\ predictor = [det_arch |-> None, reco_arch |-> None, reco_bs |-> 0]
    /\ sets = << >> /\ di = 0 /\ si = 0
    /\ page = [dims |-> <<0, 0>>, shape |-> << >>, text |-> ""]
    /\ gt_boxes = [dtype |-> "none", boxes |-> << >>]
    /\ gt_labels = << >>
    /\ out = [pages |-> << >>]
    /\ reco_words = << >>
    /\ pred_boxes = << >> /\ pred_labels = << >>
    /\ pi = 0 /\ bi = 0 /\ li = 0 /\ wi = 0 /\ hw = <<0, 0>>
    /\ det_metric = NoDet /\ reco_metric = NoReco /\ e2e_metric = NoE2E
    /\ split_counts = << >>
    /\ call = NoCall
    /\ log = << >>
    /\ printed = << >>
    /\ errAt = "none" /\ exit_code = << >>

\* Raise with the failing inference caught and the sample skipped
RaiseSkipsSample(where) ==
    /\ pc' = IF where = "inference" THEN "for_sample" ELSE "aborted"
    /\ errAt' = where
    /\ exit_code' = IF where = "inference" THEN exit_code ELSE <<1>>
    /\ UNCHANGED <<cli, args, predictor, sets, di, si, page, gt_boxes,
                   gt_labels, out, reco_words, pred_boxes, pred_labels, pi, bi,
                   li, wi, hw, det_metric, reco_metric, e2e_metric, split_counts,
                   call, log, printed>>

\* an uncaught exception: the traceback is printed to stderr and the
\* interpreter exits with status 1; nothing in main catches anything
Raise(where) ==
    /\ pc' = "aborted"
    /\ errAt' = where
    /\ exit_code' = <<1>>
    /\ UNCHANGED <<cli, args, predictor, sets, di, si, page, gt_boxes,
                   gt_labels, out, reco_words, pred_boxes, pred_labels, pi, bi,
                   li, wi, hw, det_metric, reco_metric, e2e_metric, split_counts,
                   call, log, printed>>

\* args = parse_args()
ParseArgs ==
    /\ pc = "parse"
    /\ args' = [detection |-> cli.detection[1] , recognition |-> cli.recognition[1],
                iou |-> ArgOrDefault(cli.iou, IouDefault),
                dataset |-> ArgOrDefault(cli.dataset, DatasetDefault),
                img_folder |-> ArgOrDefault(cli.img_folder, None),
                label_file |-> ArgOrDefault(cli.label_file, None),
                batch_size |-> ArgOrDefault(cli.batch_size, BatchSizeDefault)]
    /\ pc' = "predictor"
    /\ UNCHANGED <<cli, predictor, sets, di, si, page, gt_boxes,
                   gt_labels, out, reco_words, pred_boxes, pred_labels, pi, bi,
                   li, wi, hw, det_metric, reco_metric, e2e_metric, split_counts,
                   call, log, printed, errAt, exit_code>>

\* predictor = ocr_predictor(args.detection, args.recognition, pretrained=True, ...)
BuildPredictor ==
    /\ pc = "predictor"
    /\ \/ /\ predictor' = [det_arch |-> args.detection, reco_arch |-> args.recognition,
                           reco_bs |-> args.batch_size]
          /\ pc' = "datasets"
          /\ UNCHANGED <<cli, args, sets, di, si, page, gt_boxes,
                         gt_labels, out, reco_words, pred_boxes, pred_labels, pi,
                         bi, li, wi, hw, det_metric, reco_metric, e2e_metric,
                         split_counts, call, log, printed, errAt, exit_code>>
       \/ Raise("predictor")

\* datasets.OCRDataset(img_folder=..., label_file=...) holding n samples
OCRDataset(img_folder, label_file, n) ==
    [cls |-> "OCRDataset", split |-> "custom", len |-> n]

\* datasets.__dict__[name](train=..., download=True) holding n samples
NamedDataset(name, train, n) ==
    [cls |-> name, split |-> IF train THEN "train" ELSE "val", len |-> n]

\* LoadDatasets taking the custom branch when either path is given
LoadDatasetsEitherPath ==
    /\ pc = "datasets"
    /\ \/ /\ IF Truthy(args.img_folder) \/ Truthy(args.label_file)
             THEN \E n \in 0..MaxSamples :
                    sets' = << OCRDataset(args.img_folder, args.label_file, n) >>
             ELSE \E n1 \in 0..MaxSamples, n2 \in 0..MaxSamples :
                    sets' = << NamedDataset(args.dataset, TRUE, n1),
                               NamedDataset(args.dataset, FALSE, n2) >>
          /\ pc' = "metrics"
          /\ UNCHANGED <<cli, args, predictor, di, si, page, gt_boxes,
                         gt_labels, out, reco_words, pred_boxes, pred_labels, pi,
                         bi, li, wi, hw, det_metric, reco_metric, e2e_metric,
                         split_counts, call, log, printed, errAt, exit_code>>
       \/ Raise("dataset")

\* if args.img_folder and args.label_file: sets = [testset]
\* else: sets = [train_set, val_set]
LoadDatasets ==
    /\ pc = "datasets"
    /\ \/ /\ IF Truthy(args.img_folder) /\ Truthy(args.label_file)
             THEN \E n \in 0..MaxSamples :
                    sets' = << OCRDataset(args.img_folder, args.label_file, n) >>
             ELSE \E n1 \in 0..MaxSamples, n2 \in 0..MaxSamples :
                    sets' = << NamedDataset(args.dataset, TRUE, n1),
                               NamedDataset(args.dataset, FALSE, n2) >>
          /\ pc' = "metrics"
          /\ UNCHANGED <<cli, args, predictor, di, si, page, gt_boxes,
                         gt_labels, out, reco_words, pred_boxes, pred_labels, pi,
                         bi, li, wi, hw, det_metric, reco_metric, e2e_metric,
                         split_counts, call, log, printed, errAt, exit_code>>
       \/ Raise("dataset")

\* det_metric = LocalizationConfusion(iou_thresh=args.iou); reco_metric = TextMatch()
\* e2e_metric = OCRMetric(iou_thresh=args.iou)
CreateMetrics ==
    /\ pc = "metrics"
    /\ det_metric' = LocalizationConfusion(args.iou)
    /\ reco_metric' = TextMatch
    /\ e2e_metric' = OCRMetric(args.iou)
    /\ di' = 0
    /\ pc' = "for_dataset"
    /\ UNCHANGED <<cli, args, predictor, sets, si, page, gt_boxes,
                   gt_labels, out, reco_words, pred_boxes, pred_labels, pi, bi,
                   li, wi, hw, split_counts, call, log, printed, errAt, exit_code>>

\* ForDataset with the accumulators created inside the loop over sets
ForDatasetNewMetrics ==
    /\ pc = "for_dataset"
    /\ IF di < Len(sets)
       THEN /\ di' = di + 1
            /\ si' = 0
            /\ split_counts' = Append(split_counts, NoCounts)
            /\ det_metric' = LocalizationConfusion(args.iou)
            /\ reco_metric' = TextMatch
            /\ e2e_metric' = OCRMetric(args.iou)
            /\ pc' = "for_sample"
       ELSE /\ pc' = "header"
            /\ UNCHANGED <<di, si, split_counts, det_metric, reco_metric, e2e_metric>>
    /\ UNCHANGED <<cli, args, predictor, sets, page, gt_boxes, gt_labels,
                   out, reco_words, pred_boxes, pred_labels, pi, bi, li, wi, hw,
                   call, log, printed, errAt, exit_code>>

\* ForDataset with the detection summary taken at the end of each dataset
ForDatasetSummarises ==
    /\ pc = "for_dataset"
    /\ log' = IF di >= 1 THEN Append(log, "det.summary") ELSE log
    /\ IF di < Len(sets)
       THEN /\ di' = di + 1
            /\ si' = 0
            /\ split_counts' = Append(split_counts, NoCounts)
            /\ pc' = "for_sample"
       ELSE /\ pc' = "header"
            /\ UNCHANGED <<di, si, split_counts>>
    /\ UNCHANGED <<cli, args, predictor, sets, page, gt_boxes, gt_labels,
                   out, reco_words, pred_boxes, pred_labels, pi, bi, li, wi, hw,
                   det_metric, reco_metric, e2e_metric, call, printed,
                   errAt, exit_code>>

\* for dataset in sets:
ForDataset ==
    /\ pc = "for_dataset"
    /\ IF di < Len(sets)
       THEN /\ di' = di + 1
            /\ si' = 0
            /\ split_counts' = Append(split_counts, NoCounts)
            /\ pc' = "for_sample"
       ELSE /\ pc' = "header"
            /\ UNCHANGED <<di, si, split_counts>>
    /\ UNCHANGED <<cli, args, predictor, sets, page, gt_boxes, gt_labels,
                   out, reco_words, pred_boxes, pred_labels, pi, bi, li, wi, hw,
                   det_metric, reco_metric, e2e_metric, call, log, printed,
                   errAt, exit_code>>

\* for page, target in tqdm(dataset): gt_boxes = target['boxes'];
\* gt_labels = target['labels']
ForSample ==
    /\ pc = "for_sample"
    /\ \/ /\ IF si < sets[di].len
             THEN /\ si' = si + 1
                  /\ \E dims \in PageDims, kind \in PageKinds, n \in GtSizes :
                        /\ page' = [dims |-> dims, shape |-> kind.shape,
                                    text |-> kind.text]
                        /\ gt_boxes' = [dtype |-> kind.dtype,
                                        boxes |-> [i \in 1..n |-> i]]
                        /\ gt_labels' = [i \in 1..n |-> GtLabelOf(i)]
                  /\ pc' = "forward"
             ELSE /\ pc' = "for_dataset"
                  /\ UNCHANGED <<si, page, gt_boxes, gt_labels>>
          /\ UNCHANGED <<cli, args, predictor, sets, di, out, reco_words,
                         pred_boxes, pred_labels, pi, bi, li, wi, hw, det_metric,
                         reco_metric, e2e_metric, split_counts, call, log,
                         printed, errAt, exit_code>>
       \/ /\ si < sets[di].len
          /\ Raise("dataset")

\* ResetPreds with the two lists created once, before the loops
ResetPredsKeeps == UNCHANGED <<pred_boxes, pred_labels>>

\* pred_boxes = []; pred_labels = []
ResetPreds ==
    /\ pred_boxes' = << >>
    /\ pred_labels' = << >>

\* out = predictor(page[None, ...]); crops = extract_crops(page, gt_boxes)
\* reco_out = predictor.reco_predictor(crops); reco_words, _ = zip(*reco_out)
\* pred_boxes = []; pred_labels = []
Forward ==
    /\ pc = "forward"
    /\ \/ LET reco_out == RecoPredict(ExtractCrops(page, gt_boxes))
              zipped == ZipStar(reco_out)
          IN  IF Len(zipped) # 2
              THEN Raise("unpack")
              ELSE /\ out' = Predict(page)
                   /\ reco_words' = zipped[1]
                   /\ ResetPreds
                   /\ pi' = 0
                   /\ pc' = "for_page"
                   /\ UNCHANGED <<cli, args, predictor, sets, di, si,
                                  page, gt_boxes, gt_labels, bi, li, wi, hw,
                                  det_metric, reco_metric, e2e_metric,
                                  split_counts, call, log, printed, errAt,
                                  exit_code>>
       \/ Raise("inference")

\* for page in out.pages: h, w = page.dimensions
ForPage ==
    /\ pc = "for_page"
    /\ IF pi < Len(out.pages)
       THEN /\ pi' = pi + 1
            /\ hw' = out.pages[pi + 1].dimensions
            /\ bi' = 0
            /\ pc' = "for_block"
       ELSE /\ pc' = "update_det"
            /\ UNCHANGED <<pi, hw, bi>>
    /\ UNCHANGED <<cli, args, predictor, sets, di, si, page, gt_boxes,
                   gt_labels, out, reco_words, pred_boxes, pred_labels, li, wi,
                   det_metric, reco_metric, e2e_metric, split_counts, call, log,
                   printed, errAt, exit_code>>

\* for block in page.blocks:
ForBlock ==
    /\ pc = "for_block"
    /\ IF bi < Len(out.pages[pi].blocks)
       THEN /\ bi' = bi + 1
            /\ li' = 0
            /\ pc' = "for_line"
       ELSE /\ pc' = "for_page"
            /\ UNCHANGED <<bi, li>>
    /\ UNCHANGED <<cli, args, predictor, sets, di, si, page, gt_boxes,
                   gt_labels, out, reco_words, pred_boxes, pred_labels, pi, wi, hw,
                   det_metric, reco_metric, e2e_metric, split_counts, call, log,
                   printed, errAt, exit_code>>

\* for line in block.lines:
ForLine ==
    /\ pc = "for_line"
    /\ IF li < Len(out.pages[pi].blocks[bi].lines)
       THEN /\ li' = li + 1
            /\ wi' = 0
            /\ pc' = "for_word"
       ELSE /\ pc' = "for_block"
            /\ UNCHANGED <<li, wi>>
    /\ UNCHANGED <<cli, args, predictor, sets, di, si, page, gt_boxes,
                   gt_labels, out, reco_words, pred_boxes, pred_labels, pi, bi, hw,
                   det_metric, reco_metric, e2e_metric, split_counts, call, log,
                   printed, errAt, exit_code>>

\* [int(a * w), int(b * h), int(c * w), int(d * h)]
PixelBox(geometry, h, w) ==
    [kind |-> "pixel",
     v |-> << IntScale(geometry[1][1], w), IntScale(geometry[1][2], h),
              IntScale(geometry[2][1], w), IntScale(geometry[2][2], h) >>]

\* [a, b, c, d]
RelativeBox(geometry) ==
    [kind |-> "relative",
     v |-> << geometry[1][1], geometry[1][2], geometry[2][1], geometry[2][2] >>]

\* (a, b), (c, d) = word.geometry; if gt_boxes.dtype == int: ... else: ...
PredBox(word, dtype, h, w) ==
    IF DtypeEqInt(dtype) THEN PixelBox(word.geometry, h, w)
                         ELSE RelativeBox(word.geometry)

\* for word in line.words: pred_boxes.append(...); pred_labels.append(word.value)
ForWord ==
    /\ pc = "for_word"
    /\ LET words == out.pages[pi].blocks[bi].lines[li].words
       IN  IF wi < Len(words)
           THEN /\ wi' = wi + 1
                /\ pred_boxes' = Append(pred_boxes,
                                    PredBox(words[wi + 1], gt_boxes.dtype, hw[1], hw[2]))
                /\ pred_labels' = Append(pred_labels, words[wi + 1].value)
                /\ pc' = "for_word"
           ELSE /\ pc' = "for_line"
                /\ UNCHANGED <<wi, pred_boxes, pred_labels>>
    /\ UNCHANGED <<cli, args, predictor, sets, di, si, page, gt_boxes,
                   gt_labels, out, reco_words, pi, bi, li, hw, det_metric,
                   reco_metric, e2e_metric, split_counts, call, log, printed,
                   errAt, exit_code>>

\* what the dataset being iterated has contributed so far
AddToSplit(field, value) ==
    [split_counts EXCEPT ![di] = [@ EXCEPT ![field] = value]]

\* det_metric.update(gt_boxes, np.asarray(pred_boxes))
UpdateDet ==
    /\ pc = "update_det"
    /\ \/ /\ det_metric' = DetAdd(det_metric, gt_boxes, pred_boxes)
          /\ split_counts' = AddToSplit("det",
                    DetAdd(split_counts[di].det, gt_boxes, pred_boxes))
          /\ call' = [metric |-> "det", boxes |-> pred_boxes, labels |-> << >>,
                      dtype |-> gt_boxes.dtype, gt |-> gt_boxes.boxes]
          /\ log' = Append(log, "det.update")
          /\ pc' = "update_reco"
          /\ UNCHANGED <<cli, args, predictor, sets, di, si, page,
                         gt_boxes, gt_labels, out, reco_words, pred_boxes,
                         pred_labels, pi, bi, li, wi, hw, reco_metric,
                         e2e_metric, printed, errAt, exit_code>>
       \/ Raise("update")

\* reco_metric.update(gt_labels, reco_words)
UpdateReco ==
    /\ pc = "update_reco"
    /\ \/ /\ reco_metric' = RecoAdd(reco_metric, gt_labels, reco_words)
          /\ split_counts' = AddToSplit("reco",
                    RecoAdd(split_counts[di].reco, gt_labels, reco_words))
          /\ call' = [metric |-> "reco", boxes |-> << >>, labels |-> reco_words,
                      dtype |-> gt_boxes.dtype, gt |-> gt_labels]
          /\ log' = Append(log, "reco.update")
          /\ pc' = "update_e2e"
          /\ UNCHANGED <<cli, args, predictor, sets, di, si, page,
                         gt_boxes, gt_labels, out, reco_words, pred_boxes,
                         pred_labels, pi, bi, li, wi, hw, det_metric, e2e_metric,
                         printed, errAt, exit_code>>
       \/ Raise("update")

\* UpdateE2E guarded by "if pred_boxes:"
UpdateE2EUnlessEmpty ==
    /\ pc = "update_e2e"
    /\ \/ /\ IF pred_boxes = << >>
             THEN UNCHANGED <<e2e_metric, split_counts, call, log>>
             ELSE /\ e2e_metric' = E2EAdd(e2e_metric, gt_boxes, pred_boxes, gt_labels,
                                          pred_labels)
                  /\ split_counts' = AddToSplit("e2e",
                            E2EAdd(split_counts[di].e2e, gt_boxes, pred_boxes, gt_labels,
                                   pred_labels))
                  /\ call' = [metric |-> "e2e", boxes |-> pred_boxes,
                              labels |-> pred_labels, dtype |-> gt_boxes.dtype,
                              gt |-> gt_boxes.boxes]
                  /\ log' = Append(log, "e2e.update")
          /\ pc' = "for_sample"
          /\ UNCHANGED <<cli, args, predictor, sets, di, si, page,
                         gt_boxes, gt_labels, out, reco_words, pred_boxes,
                         pred_labels, pi, bi, li, wi, hw, det_metric,
                         reco_metric, printed, errAt, exit_code>>
       \/ Raise("update")

\* e2e_metric.update(gt_boxes, np.asarray(pred_boxes), gt_labels, pred_labels)
UpdateE2E ==
    /\ pc = "update_e2e"
    /\ \/ /\ e2e_metric' = E2EAdd(e2e_metric, gt_boxes, pred_boxes, gt_labels,
                                   pred_labels)
          /\ split_counts' = AddToSplit("e2e",
                    E2EAdd(split_counts[di].e2e, gt_boxes, pred_boxes, gt_labels,
                           pred_labels))
          /\ call' = [metric |-> "e2e", boxes |-> pred_boxes, labels |-> pred_labels,
                      dtype |-> gt_boxes.dtype, gt |-> gt_boxes.boxes]
          /\ log' = Append(log, "e2e.update")
          /\ pc' = "for_sample"
          /\ UNCHANGED <<cli, args, predictor, sets, di, si, page,
                         gt_boxes, gt_labels, out, reco_words, pred_boxes,
                         pred_labels, pi, bi, li, wi, hw, det_metric,
                         reco_metric, printed, errAt, exit_code>>
       \/ Raise("update")

\* f"dataset={'OCRDataset' if args.img_folder else args.dataset}"
HeaderDataset == IF Truthy(args.img_folder) THEN "OCRDataset" ELSE args.dataset

\* print(f"Model Evaluation (model= ... + ..., dataset=...)")
PrintHeader ==
    /\ pc = "header"
    /\ printed' = Append(printed, [line |-> "Model Evaluation",
                                   model |-> <<args.detection, args.recognition>>,
                                   dataset |-> HeaderDataset])
    /\ pc' = "summary_det"
    /\ UNCHANGED <<cli, args, predictor, sets, di, si, page, gt_boxes,
                   gt_labels, out, reco_words, pred_boxes, pred_labels, pi, bi,
                   li, wi, hw, det_metric, reco_metric, e2e_metric, split_counts,
                   call, log, errAt, exit_code>>

\* a ratio <<numerator, denominator>> has a value when the denominator is not 0
Defined(q) == q[2] # 0

\* LocalizationConfusion.summary(): recall, precision, mean IoU
DetSummary(acc) ==
    [recall |-> <<acc.matches, acc.num_gts>>,
     precision |-> <<acc.matches, acc.num_preds>>,
     mean_iou |-> <<acc.tot_iou, 100 * acc.num_preds>>]

\* TextMatch.summary(): raw and unicase accuracy
RecoSummary(acc) ==
    [raw |-> <<acc.raw, acc.total>>, unicase |-> <<acc.unicase, acc.total>>]

\* OCRMetric.summary(): recall and precision (raw, unicase), mean IoU
E2ESummary(acc) ==
    [recall_raw |-> <<acc.raw, acc.num_gts>>,
     recall_unicase |-> <<acc.unicase, acc.num_gts>>,
     precision_raw |-> <<acc.raw, acc.num_preds>>,
     precision_unicase |-> <<acc.unicase, acc.num_preds>>,
     mean_iou |-> <<acc.tot_iou, 100 * acc.num_preds>>]

AllDefined(summary) == \A k \in DOMAIN summary : Defined(summary[k])

\* recall, precision, mean_iou = det_metric.summary(); print(...)
SummaryDet ==
    /\ pc = "summary_det"
    /\ log' = Append(log, "det.summary")
    /\ IF AllDefined(DetSummary(det_metric))
       THEN /\ printed' = Append(printed, [line |-> "Text Detection",
                                           values |-> DetSummary(det_metric)])
            /\ pc' = "summary_reco"
            /\ UNCHANGED <<errAt, exit_code>>
       ELSE /\ pc' = "aborted"
            /\ errAt' = "summary"
            /\ exit_code' = <<1>>
            /\ UNCHANGED printed
    /\ UNCHANGED <<cli, args, predictor, sets, di, si, page, gt_boxes,
                   gt_labels, out, reco_words, pred_boxes, pred_labels, pi, bi,
                   li, wi, hw, det_metric, reco_metric, e2e_metric, split_counts,
                   call>>

\* acc = reco_metric.summary(); print(...)
SummaryReco ==
    /\ pc = "summary_reco"
    /\ log' = Append(log, "reco.summary")
    /\ IF AllDefined(RecoSummary(reco_metric))
       THEN /\ printed' = Append(printed, [line |-> "Text Recognition",
                                           values |-> RecoSummary(reco_metric)])
            /\ pc' = "summary_e2e"
            /\ UNCHANGED <<errAt, exit_code>>
       ELSE /\ pc' = "aborted"
            /\ errAt' = "summary"
            /\ exit_code' = <<1>>
            /\ UNCHANGED printed
    /\ UNCHANGED <<cli, args, predictor, sets, di, si, page, gt_boxes,
                   gt_labels, out, reco_words, pred_boxes, pred_labels, pi, bi,
                   li, wi, hw, det_metric, reco_metric, e2e_metric, split_counts,
                   call>>

\* recall, precision, mean_iou = e2e_metric.summary(); print(...); main returns
\* and the interpreter exits with status 0
SummaryE2E ==
    /\ pc = "summary_e2e"
    /\ log' = Append(log, "e2e.summary")
    /\ IF AllDefined(E2ESummary(e2e_metric))
       THEN /\ printed' = Append(printed, [line |-> "OCR",
                                           values |-> E2ESummary(e2e_metric)])
            /\ pc' = "done"
            /\ exit_code' = <<0>>
            /\ UNCHANGED errAt
       ELSE /\ pc' = "aborted"
            /\ errAt' = "summary"
            /\ exit_code' = <<1>>
            /\ UNCHANGED printed
    /\ UNCHANGED <<cli, args, predictor, sets, di, si, page, gt_boxes,
                   gt_labels, out, reco_words, pred_boxes, pred_labels, pi, bi,
                   li, wi, hw, det_metric, reco_metric, e2e_metric, split_counts,
                   call>>

Next ==
    \/ ParseArgs
    \/ BuildPredictor
    \/ LoadDatasets
    \/ CreateMetrics
    \/ ForDataset
    \/ ForSample
    \/ Forward
    \/ ForPage
    \/ ForBlock
    \/ ForLine
    \/ ForWord
    \/ UpdateDet
    \/ UpdateReco
    \/ UpdateE2E
    \/ PrintHeader
    \/ SummaryDet
    \/ SummaryReco
    \/ SummaryE2E

Spec == Init /\ [][Next]_vars

\* ------------------------------------------------------------------ claims
\* number of calls of the given name made so far
Calls(name) == Cardinality({i \in 1..Len(log) : log[i] = name})

RECURSIVE SumLen(_)
SumLen(ds) == IF ds = << >> THEN 0 ELSE Head(ds).len + SumLen(Tail(ds))

\* number of (page, target) samples of all the datasets of sets
TotalSamples == SumLen(sets)

\* main is past its two sample loops
AfterLoop ==
    \/ pc \in {"header", "summary_det", "summary_reco", "summary_e2e", "done"}
    \/ pc = "aborted" /\ errAt = "summary"

\* C1: once the loop over sets is over, each of the three accumulators has
\* received exactly as many update calls as the datasets hold samples.
C1_OneUpdatePerSample ==
    AfterLoop =>
        /\ Calls("det.update") = TotalSamples
        /\ Calls("reco.update") = TotalSamples
        /\ Calls("e2e.update") = TotalSamples

\* a finished run over two samples, the last of them without a predicted word
C1_Witness ==
    /\ pc = "done"
    /\ TotalSamples = 2
    /\ pred_boxes = << >>
    /\ Calls("e2e.update") = 2

RECURSIVE Flat(_)
Flat(ss) == IF ss = << >> THEN << >> ELSE Head(ss) \o Flat(Tail(ss))

\* the words of a Document in page -> block -> line -> word order
DocWords(doc) ==
    Flat([p \in 1..Len(doc.pages) |->
        Flat([b \in 1..Len(doc.pages[p].blocks) |->
            Flat([l \in 1..Len(doc.pages[p].blocks[b].lines) |->
                doc.pages[p].blocks[b].lines[l].words])])])

\* the box of a word in integer pixels, [int(a*w), int(b*h), int(c*w), int(d*h)]
InPixels(g, h, w) ==
    [kind |-> "pixel",
     v |-> << (g[1][1][1] * w) \div g[1][1][2], (g[1][2][1] * h) \div g[1][2][2],
              (g[2][1][1] * w) \div g[2][1][2], (g[2][2][1] * h) \div g[2][2][2] >>]

\* the box of a word as it is, [a, b, c, d]
Unscaled(g) == [kind |-> "relative", v |-> << g[1][1], g[1][2], g[2][1], g[2][2] >>]

\* the arguments in call belong to the sample whose inference output is in out
CallIsOfThisSample ==
    pc \in {"update_reco", "update_e2e", "for_sample", "for_dataset", "header",
            "summary_det", "summary_reco", "summary_e2e", "done"}

\* C2: the predicted boxes given to det_metric.update and e2e_metric.update are
\* the integer pixel boxes when the ground-truth boxes have an integer dtype,
\* and the unscaled boxes when they are floats.
C2_BoxesFollowGtConvention ==
    (CallIsOfThisSample /\ call.metric \in {"det", "e2e"}) =>
        LET ws == DocWords(out)
        IN  /\ Len(call.boxes) = Len(ws)
            /\ \A k \in 1..Len(ws) :
                call.boxes[k] = IF IsIntegerDtype(call.dtype)
                                THEN InPixels(ws[k].geometry, page.dims[1], page.dims[2])
                                ELSE Unscaled(ws[k].geometry)

\* the counts of two accumulators of one type added up
DetSum(x, y) ==
    [num_gts |-> x.num_gts + y.num_gts, num_preds |-> x.num_preds + y.num_preds,
     matches |-> x.matches + y.matches, tot_iou |-> x.tot_iou + y.tot_iou]
RecoSum(x, y) ==
    [total |-> x.total + y.total, raw |-> x.raw + y.raw,
     unicase |-> x.unicase + y.unicase]
E2ESum(x, y) ==
    [num_gts |-> x.num_gts + y.num_gts, num_preds |-> x.num_preds + y.num_preds,
     raw |-> x.raw + y.raw, unicase |-> x.unicase + y.unicase,
     tot_iou |-> x.tot_iou + y.tot_iou]

DetCounts(x) == DetSum(x, NoDet)
RecoCounts(x) == RecoSum(x, NoReco)
E2ECounts(x) == E2ESum(x, NoE2E)

\* C3: when the train and the validation split have been evaluated, each
\* accumulator holds, count by count, the sum of what the train split and
\* the validation split contributed.
C3_AggregateIsSumOfSplits ==
    (AfterLoop /\ Len(sets) = 2) =>
        /\ DetCounts(det_metric) = DetSum(split_counts[1].det, split_counts[2].det)
        /\ RecoCounts(reco_metric) = RecoSum(split_counts[1].reco, split_counts[2].reco)
        /\ E2ECounts(e2e_metric) = E2ESum(split_counts[1].e2e, split_counts[2].e2e)

\* both splits evaluated, each having contributed boxes, predictions and strings
C3_Witness ==
    /\ pc = "done"
    /\ Len(sets) = 2
    /\ \A k \in 1..2 : /\ split_counts[k].det.num_preds > 0
                       /\ split_counts[k].reco.total > 0
                       /\ split_counts[k].e2e.num_gts > 0

\* an error of the kinds the run does not survive: building the predictor,
\* loading or reading a dataset, inference on a sample, an accumulator update
FatalErrors == {"predictor", "dataset", "inference", "unpack", "update"}

\* C4: an error raised while building the predictor, loading a dataset,
\* running inference or updating an accumulator ends the run at once: the
\* process exits with a non-zero code, no summary line has been printed and
\* nothing is done afterwards (no retry, no later sample, no further update);
\* exit code 0 means every sample was processed and the summary was printed.
C4_ErrorsAbortTheRun ==
    /\ [](errAt \in FatalErrors =>
            /\ pc = "aborted"
            /\ printed = << >>
            /\ exit_code = <<1>>)
    /\ [](exit_code = <<0>> =>
            /\ errAt = "none"
            /\ Calls("det.update") = TotalSamples
            /\ Calls("reco.update") = TotalSamples
            /\ Calls("e2e.update") = TotalSamples
            /\ Len(printed) = 4)
    /\ [][errAt = "none"]_vars

\* an update fails after an earlier sample went through, with samples left
C4_Witness ==
    /\ pc = "aborted"
    /\ errAt = "update"
    /\ Calls("e2e.update") = 1
    /\ TotalSamples = 2

IsSummary(name) == name \in {"det.summary", "reco.summary", "e2e.summary"}

\* the summary calls made so far, in order
SummaryCalls == SelectSeq(log, IsSummary)

\* C5: summary() is called at most once on each accumulator, in the order
\* detection, recognition, end-to-end, only after the last update of the last
\* sample, never followed by an update; a finished run has called all three.
C5_SummariesOnceAfterUpdates ==
    /\ \E n \in 0..3 :
        SummaryCalls = SubSeq(<<"det.summary", "reco.summary", "e2e.summary">>, 1, n)
    /\ \A i \in 1..Len(log) : \A j \in 1..Len(log) :
        (i < j /\ IsSummary(log[i])) => IsSummary(log[j])
    /\ SummaryCalls # << >> =>
        /\ Calls("det.update") = TotalSamples
        /\ Calls("reco.update") = TotalSamples
        /\ Calls("e2e.update") = TotalSamples
    /\ pc = "done" => Len(SummaryCalls) = 3

\* a finished run of two samples: six updates, then the three summaries
C5_Witness ==
    /\ pc = "done"
    /\ Len(log) = 9
    /\ Len(sets) = 2

\* a ratio <<numerator, denominator>> that has a value between 0 and 1
InUnitInterval(q) == q[2] > 0 /\ 0 <= q[1] /\ q[1] <= q[2]

Given(flag) == flag # Absent

\* sets has been built; the three accumulators have been created
SetsBuilt == sets # << >>
MetricsCreated == SetsBuilt /\ pc # "metrics"

C8_FlatAlignedPredictions ==
    (CallIsOfThisSample /\ call.metric = "e2e") =>
        LET ws == DocWords(out)
        IN  /\ Len(call.boxes) = Len(ws)
            /\ Len(call.labels) = Len(ws)
            /\ \A k \in 1..Len(ws) :
                /\ call.labels[k] = ws[k].value
                /\ call.boxes[k] \in
                    {InPixels(ws[k].geometry, page.dims[1], page.dims[2]),
                     Unscaled(ws[k].geometry)}

\* the second sample's update, its output having words in two blocks, after a
\* first sample that had predictions too
C8_Witness ==
    /\ pc = "for_sample"
    /\ call.metric = "e2e"
    /\ Calls("e2e.update") = 2
    /\ Len(call.labels) = 3
    /\ e2e_metric.num_preds > 3

\* C9: the dataset name of the summary header is 'OCRDataset' exactly when the
\* custom OCRDataset was evaluated, and the --dataset name exactly when the
\* splits of that dataset were.
C9_HeaderNamesEvaluatedDataset ==
    printed # << >> =>
        /\ printed[1].dataset = "OCRDataset" <=> sets[1].cls = "OCRDataset"
        /\ printed[1].dataset = args.dataset <=> sets[1].cls = args.dataset

\* C10: for every sample, whatever its number of ground-truth boxes (zero
\* included), the unpacking of the recognition output succeeds and
\* reco_words has one word per ground-truth label, word i read from the crop
\* of ground-truth box i.
C10_RecoWordsAlignWithGt ==
    /\ errAt # "unpack"
    /\ pc \in {"for_page", "for_block", "for_line", "for_word", "update_det",
               "update_reco", "update_e2e"} =>
        /\ Len(reco_words) = Len(gt_labels)
        /\ \A i \in 1..Len(gt_labels) : reco_words[i].crop = gt_boxes.boxes[i]

====
